---- MODULE Spec2Model ----
(***************************************************************************)
(* Model of rtrepack.h: six "generator" wrappers (semaphore, thread,       *)
(* mutex, event, mailbox, message queue) that either create a kernel       *)
(* object dynamically (rt_xxx_create) or initialise a caller-supplied      *)
(* control block statically (rt_xxx_init).                                  *)
(*                                                                         *)
(* The RT-Thread kernel is an external collaborator: its entry points are  *)
(* modelled as a backend whose answers (the handle returned by create, the *)
(* status returned by init) are chosen nondeterministically, and whose     *)
(* observable effects (heap handles handed out, control blocks marked      *)
(* initialised, backing storage taken over) are recorded.                  *)
(*                                                                         *)
(* Spec      every generator call is one atomic action (one caller).       *)
(* SpecConc  two callers each run one generator call, statement by         *)
(*           statement, on distinct handle slots, in every interleaving.   *)
(*                                                                         *)
(* rt_err_t and int are both 32 bits wide on the boards this header is     *)
(* written for (board.h, drv_gpio.h), so "int ret = rt_xxx_init(...)"      *)
(* followed by "return ret" keeps every status code; status codes are      *)
(* modelled as plain integers.                                             *)
(***************************************************************************)
EXTENDS Integers, Sequences, FiniteSets, TLC

\* ---- program constants -------------------------------------------------
RT_NULL == 0
RT_EOK == 0
ENOMEM == 12

\* ---- bounds --------------------------------------------------------------
NumSlots == 2      \* handle slots (rt_sem_t sem; ...) owned by callers
NumStatic == 2     \* statically allocated control blocks (struct rt_semaphore sem;)
NumHeap == 2       \* control blocks the kernel heap can hand out
NumStorage == 1    \* caller-owned backing storage regions (stacks, message pools)
MaxCode == 2       \* status codes -MaxCode..MaxCode are returned by init, besides -ENOMEM
MaxCalls == 1      \* Spec: generator calls made one after the other in one behaviour

\* ---- value domains -------------------------------------------------------
Kinds == {"sem", "thread", "mutex", "event", "mb", "mq"}
\* kinds whose generator has a backing-storage parameter (stack_addr, msgpool)
StorageKinds == {"thread", "mb", "mq"}
Threads == {1, 2}
SlotIds == 1..NumSlots
StaticCBs == 1..NumStatic
HeapCBs == (NumStatic + 1)..(NumStatic + NumHeap)
Handles == {RT_NULL} \cup StaticCBs \cup HeapCBs
StorageAddrs == 1..NumStorage
StorageArgs == {RT_NULL} \cup StorageAddrs
StatusCodes == {RT_EOK, -ENOMEM} \cup ((-MaxCode)..MaxCode)

VARIABLES
  slots,     \* slots[s]: the handle held in caller slot s (*sem_ptr, *th_ptr, ...)
  live,      \* kernel heap: handles handed out by a create entry point
  inited,    \* kernel: control-block addresses an init entry point marked initialised
  storage,   \* storage[a]: TRUE once the kernel has taken over backing storage a
  ncalls,    \* generator calls started so far
  last,      \* Spec: record of the last generator call
  call       \* SpecConc: call[t], record of the call thread t is running

vars == <<slots, live, inited, storage, ncalls, last, call>>

\* ---- memory access -------------------------------------------------------
\* "*ptr" read
LoadSlot(mem, ptr) == mem[ptr]

\* variant: the handle is written back only when it is not null
StoreSlotOnSuccess(mem, ptr, v) ==
  IF v = RT_NULL THEN mem ELSE [mem EXCEPT ![ptr] = v]

\* variant: the handle is written through a pointer shared by all callers
StoreSlotAll(mem, ptr, v) == [s \in DOMAIN mem |-> v]

\* "*ptr = v"
StoreSlot(mem, ptr, v) == [mem EXCEPT ![ptr] = v]

\* ---- kernel backend ------------------------------------------------------
\* handles a create entry point can return now: null, or a block not handed out yet
CreateResults == {RT_NULL} \cup (HeapCBs \ live)

\* rt_xxx_create(name, config...) returning h: no caller memory is passed in
kernel_create(kind, h) ==
  /\ live' = IF h = RT_NULL THEN live ELSE live \cup {h}
  /\ UNCHANGED <<inited, storage>>

\* rt_xxx_init(cb, name, config..., st) returning status c: on success the block
\* at cb is marked initialised and the storage passed in is taken over
kernel_init(kind, cb, st, c) ==
  /\ inited' = IF c = RT_EOK THEN inited \cup {cb} ELSE inited
  /\ storage' = IF c = RT_EOK /\ st \in StorageAddrs
                THEN [storage EXCEPT ![st] = TRUE] ELSE storage
  /\ UNCHANGED live

\* rt_xxx_init(RT_NULL, ...) may also never return (RT_ASSERT on the control block)
kernel_hang ==
  UNCHANGED <<live, inited, storage>>

\* record of one kernel entry-point invocation
KCall(fn, kind, cb, st) == [fn |-> fn, kind |-> kind, cb |-> cb, st |-> st]

\* ---- the two branches of every generator ---------------------------------
\* variant: a null handle is reported with the generic error code
DynamicStatusGeneric(mem, ptr) ==
  IF LoadSlot(mem, ptr) = RT_NULL THEN -1 ELSE RT_EOK

\* variant: the null test is inverted
DynamicStatusInverted(mem, ptr) ==
  IF LoadSlot(mem, ptr) # RT_NULL THEN -ENOMEM ELSE RT_EOK

\* if (*ptr == RT_NULL) return -ENOMEM; ... return RT_EOK;
DynamicStatus(mem, ptr) ==
  IF LoadSlot(mem, ptr) = RT_NULL THEN -ENOMEM ELSE RT_EOK

\* variant: every init failure is reported with the generic error code
StaticStatusRemap(c) ==
  IF c # RT_EOK THEN -1 ELSE RT_EOK

\* variant: every init failure is reported as out of memory
StaticStatusNoMem(c) ==
  IF c # RT_EOK THEN -ENOMEM ELSE RT_EOK

\* if (ret != RT_EOK) return ret; ... return RT_EOK;
StaticStatus(c) ==
  IF c # RT_EOK THEN c ELSE RT_EOK

\* variant: the handle is kept in a local copy and never reaches the caller's slot
DynamicResultNoStore(mem, ptr, h) ==
  [mem |-> mem, ret |-> IF h = RT_NULL THEN -ENOMEM ELSE RT_EOK]

\* if (is_dynamic) { *ptr = create(...); if (*ptr == RT_NULL) return -ENOMEM; } return RT_EOK;
DynamicResult(mem, ptr, h) ==
  LET m2 == StoreSlot(mem, ptr, h) IN
  [mem |-> m2, ret |-> DynamicStatus(m2, ptr)]

\* the control-block argument of the init call: "*ptr", unchecked
InitArg(mem, ptr) == LoadSlot(mem, ptr)

\* variant: a failed init clears the caller's slot before returning
StaticResultClear(mem, ptr, c) ==
  [mem |-> IF c # RT_EOK THEN [mem EXCEPT ![ptr] = RT_NULL] ELSE mem,
   ret |-> StaticStatus(c)]

\* else { int ret = init(*ptr, ...); if (ret != RT_EOK) return ret; } return RT_EOK;
StaticResult(mem, ptr, c) ==
  [mem |-> mem, ret |-> StaticStatus(c)]

\* variant: the backing storage is not forwarded to init
InitStorageNone(kind, st_arg) == RT_NULL

\* the storage argument the generator hands to init (stack_addr / msgpool)
InitStorage(kind, st_arg) == IF kind \in StorageKinds THEN st_arg ELSE RT_NULL

Idle == [kind |-> "sem", is_dynamic |-> FALSE, ptr |-> 1, entry |-> RT_NULL,
         st_arg |-> RT_NULL, kcalls |-> <<>>, kresp |-> <<>>, ret |-> <<>>,
         pre_storage |-> [a \in StorageAddrs |-> FALSE], pre_inited |-> {},
         pre_live |-> {}, pre_slots |-> [s \in SlotIds |-> RT_NULL]]

Record(kind, dyn, ptr, st_arg, kcalls, kresp, ret) ==
  [kind |-> kind, is_dynamic |-> dyn, ptr |-> ptr, entry |-> slots[ptr],
   st_arg |-> st_arg, kcalls |-> kcalls, kresp |-> kresp, ret |-> ret,
   pre_storage |-> storage, pre_inited |-> inited, pre_live |-> live,
   pre_slots |-> slots]

\* a call that entered the kernel and never came back: the caller is stuck
Hung == Len(last.kcalls) > 0 /\ last.ret = <<>>

\* variant: a failed create is tried once more before giving up
DynamicBranchRetry(kind, ptr, st_arg) ==
  \E h \in CreateResults :
    LET r == DynamicResult(slots, ptr, h)
        k == KCall("create", kind, RT_NULL, RT_NULL) IN
    /\ kernel_create(kind, h)
    /\ slots' = r.mem
    /\ last' = Record(kind, TRUE, ptr, st_arg,
                      IF h = RT_NULL THEN <<k, k>> ELSE <<k>>, <<h>>, <<r.ret>>)

DynamicBranch(kind, ptr, st_arg) ==
  \E h \in CreateResults :
    LET r == DynamicResult(slots, ptr, h) IN
    /\ kernel_create(kind, h)
    /\ slots' = r.mem
    /\ last' = Record(kind, TRUE, ptr, st_arg,
                      <<KCall("create", kind, RT_NULL, RT_NULL)>>, <<h>>, <<r.ret>>)

\* variant: a null control block is rejected before the kernel is entered
StaticBranchChecked(kind, ptr, st_arg) ==
  LET cb == InitArg(slots, ptr)
      st == InitStorage(kind, st_arg) IN
  IF cb = RT_NULL
  THEN /\ UNCHANGED <<slots, live, inited, storage>>
       /\ last' = Record(kind, FALSE, ptr, st_arg, <<>>, <<>>, <<-1>>)
  ELSE \E c \in StatusCodes :
         LET r == StaticResult(slots, ptr, c) IN
         /\ kernel_init(kind, cb, st, c)
         /\ slots' = r.mem
         /\ last' = Record(kind, FALSE, ptr, st_arg,
                           <<KCall("init", kind, cb, st)>>, <<c>>, <<r.ret>>)

StaticBranch(kind, ptr, st_arg) ==
  LET cb == InitArg(slots, ptr)
      st == InitStorage(kind, st_arg) IN
  \/ \E c \in StatusCodes :
       LET r == StaticResult(slots, ptr, c) IN
       /\ kernel_init(kind, cb, st, c)
       /\ slots' = r.mem
       /\ last' = Record(kind, FALSE, ptr, st_arg,
                         <<KCall("init", kind, cb, st)>>, <<c>>, <<r.ret>>)
  \/ /\ cb = RT_NULL
     /\ kernel_hang
     /\ UNCHANGED slots
     /\ last' = Record(kind, FALSE, ptr, st_arg,
                       <<KCall("init", kind, cb, st)>>, <<>>, <<>>)

\* ---- the six generators (Spec: one atomic action per call) --------------
semaphore_generator(sem_ptr, is_dynamic) ==
  /\ ~Hung
  /\ ncalls < MaxCalls
  /\ ncalls' = ncalls + 1
  /\ IF is_dynamic THEN DynamicBranch("sem", sem_ptr, RT_NULL)
                   ELSE StaticBranch("sem", sem_ptr, RT_NULL)
  /\ UNCHANGED call

thread_generator(th_ptr, stack_addr, is_dynamic) ==
  /\ ~Hung
  /\ ncalls < MaxCalls
  /\ ncalls' = ncalls + 1
  /\ IF is_dynamic THEN DynamicBranch("thread", th_ptr, stack_addr)
                   ELSE StaticBranch("thread", th_ptr, stack_addr)
  /\ UNCHANGED call

mutex_generator(mutex_ptr, is_dynamic) ==
  /\ ~Hung
  /\ ncalls < MaxCalls
  /\ ncalls' = ncalls + 1
  /\ IF is_dynamic THEN DynamicBranch("mutex", mutex_ptr, RT_NULL)
                   ELSE StaticBranch("mutex", mutex_ptr, RT_NULL)
  /\ UNCHANGED call

event_generator(event_ptr, is_dynamic) ==
  /\ ~Hung
  /\ ncalls < MaxCalls
  /\ ncalls' = ncalls + 1
  /\ IF is_dynamic THEN DynamicBranch("event", event_ptr, RT_NULL)
                   ELSE StaticBranch("event", event_ptr, RT_NULL)
  /\ UNCHANGED call

mailbox_generator(mb_ptr, msgpool, is_dynamic) ==
  /\ ~Hung
  /\ ncalls < MaxCalls
  /\ ncalls' = ncalls + 1
  /\ IF is_dynamic THEN DynamicBranch("mb", mb_ptr, msgpool)
                   ELSE StaticBranch("mb", mb_ptr, msgpool)
  /\ UNCHANGED call

messagequeue_generator(mq_ptr, msgpool, is_dynamic) ==
  /\ ~Hung
  /\ ncalls < MaxCalls
  /\ ncalls' = ncalls + 1
  /\ IF is_dynamic THEN DynamicBranch("mq", mq_ptr, msgpool)
                   ELSE StaticBranch("mq", mq_ptr, msgpool)
  /\ UNCHANGED call

IdleCall(t) == [pc |-> "idle", kind |-> "sem", is_dynamic |-> FALSE, ptr |-> t,
                entry |-> slots[t], st_arg |-> RT_NULL, cb |-> RT_NULL,
                kcalls |-> <<>>, kresp |-> <<>>, ret |-> <<>>]

\* a caller's slot holds null (rt_sem_t sem = RT_NULL;) or the address of a
\* statically allocated control block
Init ==
  /\ slots \in [SlotIds -> {RT_NULL} \cup StaticCBs]
  /\ live = {}
  /\ inited = {}
  /\ storage = [a \in StorageAddrs |-> FALSE]
  /\ ncalls = 0
  /\ last = Idle
  /\ call = [t \in Threads |-> IdleCall(t)]

Next ==
  \/ \E p \in SlotIds, d \in BOOLEAN : semaphore_generator(p, d)
  \/ \E p \in SlotIds, s \in StorageArgs, d \in BOOLEAN : thread_generator(p, s, d)
  \/ \E p \in SlotIds, d \in BOOLEAN : mutex_generator(p, d)
  \/ \E p \in SlotIds, d \in BOOLEAN : event_generator(p, d)
  \/ \E p \in SlotIds, s \in StorageArgs, d \in BOOLEAN : mailbox_generator(p, s, d)
  \/ \E p \in SlotIds, s \in StorageArgs, d \in BOOLEAN : messagequeue_generator(p, s, d)

Spec == Init /\ [][Next]_vars

\* ---- SpecConc: the same code, one statement at a time, two callers ------
\* thread t calls the generators on its own handle slot, slot t
Begin(t, kind, dyn, st_arg, pc, cb, kcalls, kresp) ==
  [pc |-> pc, kind |-> kind, is_dynamic |-> dyn, ptr |-> t, entry |-> slots[t],
   st_arg |-> st_arg, cb |-> cb, kcalls |-> kcalls, kresp |-> kresp, ret |-> <<>>]

\* each of the two threads makes one call
CanStart(t) ==
  call[t].pc = "idle"

\* dynamic branch, right-hand side of "*ptr = rt_xxx_create(...)"
c_create(t) ==
  \E kind \in Kinds, st_arg \in StorageArgs, h \in CreateResults :
    /\ CanStart(t)
    /\ kind \in StorageKinds \/ st_arg = RT_NULL
    /\ kernel_create(kind, h)
    /\ ncalls' = ncalls + 1
    /\ call' = [call EXCEPT ![t] =
                  Begin(t, kind, TRUE, st_arg, "created", RT_NULL,
                        <<KCall("create", kind, RT_NULL, RT_NULL)>>, <<h>>)]
    /\ UNCHANGED <<slots, last>>

\* dynamic branch, the assignment "*ptr = ..."
c_store(t) ==
  /\ call[t].pc = "created"
  /\ slots' = StoreSlot(slots, call[t].ptr, call[t].kresp[1])
  /\ call' = [call EXCEPT ![t].pc = "stored"]
  /\ UNCHANGED <<live, inited, storage, ncalls, last>>

\* dynamic branch, "if (*ptr == RT_NULL) return -ENOMEM; ... return RT_EOK;"
c_check(t) ==
  /\ call[t].pc = "stored"
  /\ call' = [call EXCEPT ![t].pc = "returned",
                          ![t].ret = <<DynamicStatus(slots, call[t].ptr)>>]
  /\ UNCHANGED <<slots, live, inited, storage, ncalls, last>>

\* static branch, evaluation of the argument "*ptr"
c_load(t) ==
  \E kind \in Kinds, st_arg \in StorageArgs :
    /\ CanStart(t)
    /\ kind \in StorageKinds \/ st_arg = RT_NULL
    /\ ncalls' = ncalls + 1
    /\ call' = [call EXCEPT ![t] =
                  Begin(t, kind, FALSE, st_arg, "loaded", InitArg(slots, t),
                        <<>>, <<>>)]
    /\ UNCHANGED <<slots, live, inited, storage, last>>

\* static branch, "ret = rt_xxx_init(cb, ...)"
c_init(t) ==
  LET c == call[t]
      st == InitStorage(c.kind, c.st_arg) IN
  /\ c.pc = "loaded"
  /\ \E code \in StatusCodes :
       /\ kernel_init(c.kind, c.cb, st, code)
       /\ call' = [call EXCEPT ![t].pc = "inited",
                               ![t].kcalls = <<KCall("init", c.kind, c.cb, st)>>,
                               ![t].kresp = <<code>>]
  /\ UNCHANGED <<slots, ncalls, last>>

\* static branch, rt_xxx_init(RT_NULL, ...) never returning
c_hang(t) ==
  LET c == call[t] IN
  /\ c.pc = "loaded"
  /\ c.cb = RT_NULL
  /\ kernel_hang
  /\ call' = [call EXCEPT ![t].pc = "hung",
                          ![t].kcalls = <<KCall("init", c.kind, c.cb,
                                                InitStorage(c.kind, c.st_arg))>>]
  /\ UNCHANGED <<slots, ncalls, last>>

\* static branch, "if (ret != RT_EOK) return ret; ... return RT_EOK;"
c_return(t) ==
  /\ call[t].pc = "inited"
  /\ call' = [call EXCEPT ![t].pc = "returned",
                          ![t].ret = <<StaticStatus(call[t].kresp[1])>>]
  /\ UNCHANGED <<slots, live, inited, storage, ncalls, last>>

\* two callers on distinct control blocks: no two slots hold the same block;
\* slots that belong to neither caller start out null
InitConc ==
  /\ Init
  /\ \A s, u \in SlotIds : s # u /\ slots[s] # RT_NULL => slots[s] # slots[u]
  /\ \A s \in SlotIds \ Threads : slots[s] = RT_NULL

NextConc ==
  \/ \E t \in Threads : c_create(t)
  \/ \E t \in Threads : c_store(t)
  \/ \E t \in Threads : c_check(t)
  \/ \E t \in Threads : c_load(t)
  \/ \E t \in Threads : c_init(t)
  \/ \E t \in Threads : c_hang(t)
  \/ \E t \in Threads : c_return(t)

SpecConc == InitConc /\ [][NextConc]_vars

\* ---- properties of a completed call (Spec) -------------------------------
Called == Len(last.kcalls) > 0
Returned == last.ret # <<>>
Failed == Returned /\ last.ret # <<RT_EOK>>

\* C1: a dynamic call whose create entry point returned a null handle
\* returns -ENOMEM, for every kind and whatever the other arguments are.
Thm_C1 ==
  (last.is_dynamic /\ Called /\ last.kresp = <<RT_NULL>>) => last.ret = <<-ENOMEM>>

Wit_C1 ==
  /\ last.is_dynamic /\ last.kind = "mq" /\ last.st_arg # RT_NULL
  /\ last.kresp = <<RT_NULL>> /\ last.ret = <<-ENOMEM>>

\* C2: a static call whose init entry point returned a status c other than
\* RT_EOK returns exactly c.
Thm_C2 ==
  (~last.is_dynamic /\ Len(last.kresp) = 1 /\ last.kresp # <<RT_EOK>>)
    => last.ret = last.kresp

Wit_C2 ==
  /\ ~last.is_dynamic /\ last.kind = "mb"
  /\ last.kresp = <<-MaxCode>> /\ last.ret = <<-MaxCode>>

\* C3 as stated: after a failed call (either mode) the handle slot holds the
\* value it held at call entry, whatever that value was.
Orig_C3 ==
  Failed => slots[last.ptr] = last.entry

\* C3 amended: after a failed static call the handle slot holds its entry
\* value; after a failed dynamic call it holds null, which is the entry value
\* only when the slot held null at entry.
Thm_C3 ==
  Failed => slots[last.ptr] = (IF last.is_dynamic THEN RT_NULL ELSE last.entry)

Wit_C3 ==
  /\ Failed /\ last.is_dynamic /\ last.kind = "mutex"
  /\ last.entry # RT_NULL /\ slots[last.ptr] = RT_NULL

\* C4: a dynamic call whose create entry point returned a non-null handle h
\* returns RT_EOK, leaves exactly h in the handle slot, hands no caller storage
\* to the kernel and leaves every backing-storage region as it was.
Thm_C4 ==
  (last.is_dynamic /\ Called /\ last.kresp # <<RT_NULL>>)
    => /\ last.ret = <<RT_EOK>>
       /\ <<slots[last.ptr]>> = last.kresp
       /\ last.kcalls[1].st = RT_NULL
       /\ storage = last.pre_storage

Wit_C4 ==
  /\ last.is_dynamic /\ last.kind = "thread" /\ last.st_arg # RT_NULL
  /\ last.ret = <<RT_EOK>> /\ slots[last.ptr] \in HeapCBs
  /\ slots[last.ptr] # last.entry

\* C5: a static call whose init entry point returned RT_EOK returns RT_EOK;
\* the control block the backend marked initialised is the one whose address
\* was in the handle slot at entry; the slots are unchanged and the storage
\* address handed to init is the caller's.
Thm_C5 ==
  (~last.is_dynamic /\ last.kresp = <<RT_EOK>>)
    => /\ last.ret = <<RT_EOK>>
       /\ last.kcalls[1].cb = last.entry
       /\ inited = last.pre_inited \cup {last.entry}
       /\ slots = last.pre_slots
       /\ last.kind \in StorageKinds => last.kcalls[1].st = last.st_arg

Wit_C5 ==
  /\ ~last.is_dynamic /\ last.kind = "mb" /\ last.ret = <<RT_EOK>>
  /\ last.entry \in StaticCBs /\ last.entry \in inited
  /\ last.st_arg \in StorageAddrs /\ storage[last.st_arg]

\* C6 as stated: a static call never returns -ENOMEM, whatever status the
\* init entry point returns.
Orig_C6 ==
  (~last.is_dynamic /\ Returned) => last.ret # <<-ENOMEM>>

\* C6 amended: a static call returns -ENOMEM only when the init entry point
\* itself returned -ENOMEM, which the generator passes on unchanged; the
\* generator never produces -ENOMEM of its own on the static branch.
Thm_C6 ==
  (~last.is_dynamic /\ last.ret = <<-ENOMEM>>)
    => /\ last.kresp = <<-ENOMEM>>
       /\ last.kcalls[1].fn = "init"

Wit_C6 ==
  /\ ~last.is_dynamic /\ last.kind = "sem" /\ last.ret = <<-ENOMEM>>
  /\ live = last.pre_live

\* C7: every call enters the kernel exactly once: through create when
\* is_dynamic, through init otherwise; a static call allocates nothing and a
\* failed call is not repeated.
Thm_C7 ==
  Called => /\ Len(last.kcalls) = 1
            /\ last.kcalls[1].fn = (IF last.is_dynamic THEN "create" ELSE "init")
            /\ last.kcalls[1].kind = last.kind
            /\ ~last.is_dynamic => live = last.pre_live
            /\ last.is_dynamic => inited = last.pre_inited

Wit_C7 ==
  /\ Failed /\ last.is_dynamic /\ last.kind = "sem"
  /\ Len(last.kcalls) = 1 /\ last.kcalls[1].fn = "create"

\* C8: after a dynamic call that returned -ENOMEM the handle slot is null,
\* whatever it held at entry; after a dynamic call the slot is non-null only
\* if the call returned RT_EOK.
Thm_C8 ==
  (last.is_dynamic /\ Returned)
    => /\ last.ret = <<-ENOMEM>> => slots[last.ptr] = RT_NULL
       /\ slots[last.ptr] # RT_NULL => last.ret = <<RT_EOK>>

Wit_C8 ==
  /\ last.is_dynamic /\ last.kind = "event" /\ last.ret = <<-ENOMEM>>
  /\ last.entry \in StaticCBs /\ slots[last.ptr] = RT_NULL

\* C10: a static call hands the value the handle slot held at entry to the
\* init entry point without checking it; with a null slot init is still
\* entered, with a null control-block address.
Thm_C10 ==
  (ncalls > 0 /\ ~last.is_dynamic)
    => /\ Len(last.kcalls) = 1
       /\ last.kcalls[1].fn = "init"
       /\ last.kcalls[1].cb = last.entry

Wit_C10 ==
  /\ ~last.is_dynamic /\ last.kind = "thread" /\ last.entry = RT_NULL
  /\ Called /\ last.kcalls[1].cb = RT_NULL /\ Returned

\* ---- independence of concurrent calls (SpecConc) -------------------------
\* what the call recorded in c produces when it runs alone on a memory that
\* holds nothing but its own slot, given the same kernel response
RunAlone(c) ==
  LET own == [s \in {c.ptr} |-> c.entry] IN
  IF c.is_dynamic THEN DynamicResult(own, c.ptr, c.kresp[1])
                  ELSE StaticResult(own, c.ptr, c.kresp[1])

\* the value a thread's slot holds if only that thread's own call touched it
OwnSlot(c) ==
  IF c.pc \in {"stored", "returned"} THEN RunAlone(c).mem[c.ptr] ELSE c.entry

\* C9: in every interleaving of two calls on distinct slots, each slot holds
\* at every moment what its own call alone has put there, each call hands its
\* own slot's entry value to init, and each call returns what it returns when
\* run alone with the same kernel response.
Thm_C9 ==
  \A t \in Threads :
    LET c == call[t] IN
    /\ slots[c.ptr] = OwnSlot(c)
    /\ c.pc \in {"loaded", "inited", "hung"} => c.cb = c.entry
    /\ c.pc = "returned" => c.ret = <<RunAlone(c).ret>>

Wit_C9 ==
  /\ call[1].pc = "stored" /\ call[1].is_dynamic /\ call[1].kind = "sem"
  /\ call[1].entry \in StaticCBs /\ slots[1] \in HeapCBs
  /\ call[2].pc = "inited" /\ call[2].kind = "mutex" /\ call[2].entry \in StaticCBs
  /\ call[2].kresp # <<RT_EOK>>

TypeOK ==
  /\ slots \in [SlotIds -> Handles]
  /\ live \subseteq HeapCBs
  /\ inited \subseteq Handles
  /\ storage \in [StorageAddrs -> BOOLEAN]
====
